---- MODULE Spec2Model ----
(***************************************************************************)
(* Model of app.py: the recipe form's validator, the image store, the      *)
(* CSV-backed recipe repository with its load cache, and the Hugging Face  *)
(* uploader with its cached client initialisation.                         *)
(*                                                                         *)
(* Text is modelled as a sequence of one-character strings so that strip,  *)
(* len, the filename sanitiser and the CSV type inference are computed.    *)
(* Python values are tagged records: StrVal, IntVal, FloatVal, NaN, None.   *)
(***************************************************************************)
EXTENDS Integers, Sequences, FiniteSets, TLC

VARIABLES dataFile, imagesDir, loadCache, apiCache, loginCalls, appended,
          now, last, args, stored

vars == <<dataFile, imagesDir, loadCache, apiCache, loginCalls, appended,
          now, last, args, stored>>

(***************************************************************************)
(* Bounds of the model.                                                    *)
(***************************************************************************)
MaxRows == 2
MaxPad == 1
MaxStores == 2

(***************************************************************************)
(* Python values.                                                          *)
(***************************************************************************)
None == [t |-> "none"]
NaN == [t |-> "nan"]
StrVal(s) == [t |-> "str", s |-> s]
IntVal(n) == [t |-> "int", n |-> n]
FloatVal(n) == [t |-> "float", n |-> n]

Rep(c, n) == [i \in 1..n |-> c]

Digits == <<"0", "1", "2", "3", "4", "5", "6", "7", "8", "9">>
DigitSet == {Digits[i] : i \in 1..10}
LetterSet == {"a", "b", "c", "d", "e", "f", "g", "h", "i", "j", "k", "l", "m",
              "n", "o", "p", "q", "r", "s", "t", "u", "v", "w", "x", "y", "z",
              "A", "B", "C", "D", "E", "F", "G", "H", "I", "J", "K", "L", "M",
              "N", "O", "P", "Q", "R", "S", "T", "U", "V", "W", "X", "Y", "Z"}

\* str.isalnum() for one character
IsAlnum(c) == c \in LetterSet \cup DigitSet

\* the whitespace str.strip() removes
IsSpace(c) == c \in {" ", "\t", "\n"}

RECURSIVE LStrip(_)
LStrip(s) == IF s # <<>> /\ IsSpace(Head(s)) THEN LStrip(Tail(s)) ELSE s

RECURSIVE RStrip(_)
RStrip(s) == IF s # <<>> /\ IsSpace(s[Len(s)])
             THEN RStrip(SubSeq(s, 1, Len(s) - 1)) ELSE s

\* str.strip()
Strip(s) == RStrip(LStrip(s))

\* Python truthiness of an optional string: None and "" are falsy
Falsy(v) == v = None \/ v.s = <<>>

(***************************************************************************)
(* validate_recipe_data                                                    *)
(***************************************************************************)
MinNameLen == 3
MinIngredientsLen == 10
MinInstructionsLen == 20

NameError == "Recipe name must be at least 3 characters long"
IngredientsError == "Ingredients must be at least 10 characters long"
InstructionsError == "Instructions must be at least 20 characters long"

\* one `if not x or len(x.strip()) < n` test
TooShort(v, n) == Falsy(v) \/ Len(Strip(v.s)) < n

\* a plausible slip: the checks chained with elif, so only the first
\* violated rule reports
ValidateRecipeData_ShortCircuit(name, ingredients, instructions) ==
  IF TooShort(name, MinNameLen) THEN <<NameError>>
  ELSE IF TooShort(ingredients, MinIngredientsLen) THEN <<IngredientsError>>
  ELSE IF TooShort(instructions, MinInstructionsLen) THEN <<InstructionsError>>
  ELSE <<>>

ValidateRecipeData(name, ingredients, instructions) ==
  LET e0 == <<>>
      e1 == IF TooShort(name, MinNameLen) THEN Append(e0, NameError) ELSE e0
      e2 == IF TooShort(ingredients, MinIngredientsLen)
            THEN Append(e1, IngredientsError) ELSE e1
      e3 == IF TooShort(instructions, MinInstructionsLen)
            THEN Append(e2, InstructionsError) ELSE e2
  IN e3

(***************************************************************************)
(* save_image                                                              *)
(***************************************************************************)
\* hashlib.md5(bytes).hexdigest()[:8] of the image contents of the model;
\* the two last contents are distinct byte strings whose MD5 digests share
\* their first 8 hex characters
ImageBytes == {"img0", "img27560", "img50384"}

Md5Hex8(bytes) ==
  CASE bytes = "img0" -> <<"9", "3", "d", "7", "c", "d", "6", "c">>
    [] bytes = "img27560" -> <<"2", "5", "5", "2", "f", "5", "0", "7">>
    [] bytes = "img50384" -> <<"2", "5", "5", "2", "f", "5", "0", "7">>

\* the generator's filter: c.isalnum() or c in (' ', '-', '_')
KeptInName(c) == IsAlnum(c) \/ c \in {" ", "-", "_"}

RECURSIVE ReplaceSpaces(_)
ReplaceSpaces(s) ==
  IF s = <<>> THEN <<>>
  ELSE <<IF Head(s) = " " THEN "_" ELSE Head(s)>> \o ReplaceSpaces(Tail(s))

SafeName(recipe_name) == ReplaceSpaces(Strip(SelectSeq(recipe_name, KeptInName)))

\* name.split('.')[-1]
RECURSIVE Extension(_)
Extension(fname) ==
  IF \E i \in 1..Len(fname) : fname[i] = "."
  THEN Extension(Tail(fname))
  ELSE fname

ImageFilename(image_file, recipe_name) ==
  SafeName(recipe_name) \o <<"_">> \o Md5Hex8(image_file.bytes) \o <<".">>
    \o Extension(image_file.name)

\* open(filepath, "wb") and write: create or overwrite
WriteFile(dir, filename, bytes) ==
  [f \in DOMAIN dir \cup {filename} |-> IF f = filename THEN bytes ELSE dir[f]]

\* returns the filename (None without an image) and the directory after it
SaveImage(dir, image_file, recipe_name) ==
  IF image_file # None
  THEN LET filename == ImageFilename(image_file, recipe_name)
       IN [filename |-> StrVal(filename),
           dir |-> WriteFile(dir, filename, image_file.bytes)]
  ELSE [filename |-> None, dir |-> dir]

(***************************************************************************)
(* The CSV file: DataFrame.to_csv(index=False) and pd.read_csv             *)
(***************************************************************************)
Columns == {"name", "language", "region", "ingredients", "instructions",
            "prep_time_minutes", "cook_time_minutes", "total_time_minutes",
            "servings", "difficulty", "image_filename", "date_added"}

RECURSIVE Itoa(_)
Itoa(n) == IF n < 10 THEN <<Digits[n + 1]>>
           ELSE Itoa(n \div 10) \o <<Digits[(n % 10) + 1]>>

DigitValue(c) == CHOOSE d \in 0..9 : Digits[d + 1] = c

RECURSIVE Atoi(_)
Atoi(s) == IF s = <<>> THEN 0
           ELSE 10 * Atoi(SubSeq(s, 1, Len(s) - 1)) + DigitValue(s[Len(s)])

\* to_csv: a missing value (None, NaN) is written as the empty field
CellText(v) ==
  CASE v.t = "str" -> v.s
    [] v.t = "int" -> Itoa(v.n)
    [] v.t = "float" -> Itoa(v.n) \o <<".", "0">>
    [] OTHER -> <<>>

ToCsv(df) == [i \in 1..Len(df) |-> [c \in Columns |-> CellText(df[i][c])]]

\* read_csv's default na_values
NAValues ==
  { <<>>,
    <<"#", "N", "/", "A">>,
    <<"#", "N", "/", "A", " ", "N", "/", "A">>,
    <<"#", "N", "A">>,
    <<"-", "1", ".", "#", "I", "N", "D">>,
    <<"-", "1", ".", "#", "Q", "N", "A", "N">>,
    <<"-", "N", "a", "N">>,
    <<"-", "n", "a", "n">>,
    <<"1", ".", "#", "I", "N", "D">>,
    <<"1", ".", "#", "Q", "N", "A", "N">>,
    <<"<", "N", "A", ">">>,
    <<"N", "/", "A">>,
    <<"N", "A">>,
    <<"N", "U", "L", "L">>,
    <<"N", "a", "N">>,
    <<"N", "o", "n", "e">>,
    <<"n", "/", "a">>,
    <<"n", "a", "n">>,
    <<"n", "u", "l", "l">> }

IsNA(s) == s \in NAValues

IsIntText(s) == s # <<>> /\ \A i \in 1..Len(s) : s[i] \in DigitSet

\* the float texts to_csv writes for a whole-valued float column
IsFloatText(s) ==
  /\ Len(s) >= 3
  /\ s[Len(s) - 1] = "." /\ s[Len(s)] = "0"
  /\ IsIntText(SubSeq(s, 1, Len(s) - 2))

NumberOf(s) == IF IsIntText(s) THEN Atoi(s) ELSE Atoi(SubSeq(s, 1, Len(s) - 2))

\* read_csv infers one dtype per column: int64 when every cell is an
\* integer, float64 when every present cell is a number, object otherwise;
\* missing cells are NaN
ColumnValue(rows, c, i) ==
  LET present == {j \in 1..Len(rows) : ~IsNA(rows[j][c])}
      allInt == present # {} /\ \A j \in present : IsIntText(rows[j][c])
      allNum == present # {} /\ \A j \in present :
                   IsIntText(rows[j][c]) \/ IsFloatText(rows[j][c])
  IN IF i \notin present THEN NaN
     ELSE IF allInt /\ present = 1..Len(rows) THEN IntVal(Atoi(rows[i][c]))
     ELSE IF allNum THEN FloatVal(NumberOf(rows[i][c]))
     ELSE StrVal(rows[i][c])

ReadCsv(rows) == [i \in 1..Len(rows) |-> [c \in Columns |-> ColumnValue(rows, c, i)]]

\* pd.DataFrame()
EmptyDataFrame == <<>>

NoFile == [exists |-> FALSE, rows |-> <<>>]

(***************************************************************************)
(* load_existing_data under st.cache_data, and save_recipe_locally         *)
(***************************************************************************)
NoCache == [hit |-> FALSE]

\* the function body
ReadDataFile(file) == IF file.exists THEN ReadCsv(file.rows) ELSE EmptyDataFrame

\* the cached call: the stored result on a hit, the body on a miss
LoadExistingData(cache, file) == IF cache.hit THEN cache.df ELSE ReadDataFile(file)

CacheAfterLoad(cache, file) ==
  IF cache.hit THEN cache ELSE [hit |-> TRUE, df |-> ReadDataFile(file)]

\* a plausible slip: the rewrite without load_existing_data.clear()
SaveRecipeLocally_NoClear(file, cache, recipe_data) ==
  LET df == IF file.exists THEN ReadCsv(file.rows) \o <<recipe_data>>
            ELSE <<recipe_data>>
  IN [file |-> [exists |-> TRUE, rows |-> ToCsv(df)], cache |-> cache]

\* returns the file and the load cache after the call
SaveRecipeLocally(file, cache, recipe_data) ==
  LET df == IF file.exists THEN ReadCsv(file.rows) \o <<recipe_data>>
            ELSE <<recipe_data>>
  IN [file |-> [exists |-> TRUE, rows |-> ToCsv(df)], cache |-> NoCache]

(***************************************************************************)
(* The recipe form's submit handler                                        *)
(***************************************************************************)
Pad2(n) == IF n < 10 THEN <<"0">> \o Itoa(n) ELSE Itoa(n)

\* datetime.now().strftime("%Y-%m-%d %H:%M:%S"), its minutes and seconds
Strftime(t) == Pad2(t \div 60) \o <<":">> \o Pad2(t % 60)

\* the recipe_data dict built from the form fields f
RecipeData(f, image_filename, t) ==
  [name |-> StrVal(Strip(f.name.s)),
   language |-> StrVal(f.language),
   region |-> IF Falsy(f.region) THEN StrVal(<<>>) ELSE StrVal(Strip(f.region.s)),
   ingredients |-> StrVal(Strip(f.ingredients.s)),
   instructions |-> StrVal(Strip(f.instructions.s)),
   prep_time_minutes |-> IntVal(f.prep_time),
   cook_time_minutes |-> IntVal(f.cook_time),
   total_time_minutes |-> IntVal(f.prep_time + f.cook_time),
   servings |-> IntVal(f.servings),
   difficulty |-> StrVal(f.difficulty),
   image_filename |-> image_filename,
   date_added |-> StrVal(Strftime(t))]

\* a plausible slip: the record saved whatever the validator said
Rejected_Never(errors) == FALSE

\* `if errors:` the handler reports the errors and persists nothing
Rejected(errors) == errors # <<>>

ErrorMessages(errors) == [i \in 1..Len(errors) |-> [kind |-> "error", text |-> errors[i]]]

SavedMessage == [kind |-> "success", text |-> "Recipe saved successfully!"]

\* Filesystem outcomes of one submit: every open succeeds, the image's
\* open(filepath, "wb") raises, or to_csv's open of recipes.csv raises.
\* Only the opens the handler reaches can fail.
FsOutcomes(f, image_file) ==
  IF Rejected(ValidateRecipeData(f.name, f.ingredients, f.instructions))
  THEN {"ok"}
  ELSE IF image_file = None THEN {"ok", "csv_open_fails"}
  ELSE {"ok", "image_open_fails", "csv_open_fails"}

\* the credentials of the model
Tokens == {"hf_tokA", "hf_tokB"}

Init ==
  /\ dataFile = NoFile
  /\ imagesDir = <<>>
  /\ loadCache = NoCache
  /\ apiCache = <<>>
  /\ loginCalls = [t \in Tokens |-> 0]
  /\ appended = <<>>
  /\ now = 0
  /\ last = [op |-> "start"]
  /\ args = None
  /\ stored = <<>>

\* a call of load_existing_data()
Load ==
  /\ last' = [op |-> "load", df |-> LoadExistingData(loadCache, dataFile)]
  /\ loadCache' = CacheAfterLoad(loadCache, dataFile)
  /\ UNCHANGED <<dataFile, imagesDir, apiCache, loginCalls, appended, now,
                 args, stored>>

\* `if submitted:` with the form fields f, an attached image or None, and
\* the filesystem's outcome fs. No try/except surrounds the handler: an
\* OSError raised by save_image or save_recipe_locally leaves it
\* (raised = TRUE) before any st.success or st.error is issued.
Submit(f, image_file, fs) ==
  LET errors == ValidateRecipeData(f.name, f.ingredients, f.instructions)
  IN IF Rejected(errors)
     THEN /\ last' = [op |-> "submit", errors |-> errors,
                      had_image |-> image_file # None, raised |-> FALSE,
                      messages |-> ErrorMessages(errors), saved |-> FALSE,
                      record |-> None, loaded |-> EmptyDataFrame]
          /\ UNCHANGED <<dataFile, imagesDir, loadCache, apiCache, loginCalls,
                         appended, now, args, stored>>
     ELSE IF image_file # None /\ fs = "image_open_fails"
     THEN /\ last' = [op |-> "submit", errors |-> errors,
                      had_image |-> image_file # None, raised |-> TRUE,
                      messages |-> <<>>, saved |-> FALSE, record |-> None,
                      loaded |-> EmptyDataFrame]
          /\ UNCHANGED <<dataFile, imagesDir, loadCache, apiCache, loginCalls,
                         appended, now, args, stored>>
     ELSE LET img == SaveImage(imagesDir, image_file, f.name.s)
              recipe_data == RecipeData(f, img.filename, now + 1)
          IN IF fs = "csv_open_fails"
             THEN /\ imagesDir' = img.dir
                  /\ last' = [op |-> "submit", errors |-> errors,
                              had_image |-> image_file # None,
                              raised |-> TRUE, messages |-> <<>>,
                              saved |-> FALSE, record |-> recipe_data,
                              loaded |-> EmptyDataFrame]
                  /\ UNCHANGED <<dataFile, loadCache, apiCache, loginCalls,
                                 appended, now, args, stored>>
             ELSE LET saved == SaveRecipeLocally(dataFile, loadCache, recipe_data)
                  IN /\ Len(dataFile.rows) < MaxRows
                     /\ imagesDir' = img.dir
                     /\ dataFile' = saved.file
                     \* st.rerun(): the script runs again and calls load
                     /\ loadCache' = CacheAfterLoad(saved.cache, saved.file)
                     /\ appended' = Append(appended, recipe_data)
                     /\ now' = now + 1
                     /\ last' = [op |-> "submit", errors |-> errors,
                                 had_image |-> image_file # None,
                                 raised |-> FALSE, messages |-> <<SavedMessage>>,
                                 saved |-> TRUE, record |-> recipe_data,
                                 loaded |-> LoadExistingData(saved.cache, saved.file)]
                     /\ UNCHANGED <<apiCache, loginCalls, args, stored>>

(***************************************************************************)
(* The form inputs of the model                                            *)
(***************************************************************************)
Telugu == <<"T", "e", "l", "u", "g", "u">>
Hindi == <<"H", "i", "n", "d", "i">>
Easy == <<"E", "a", "s", "y">>

FormNames == { StrVal(<<"H", "i">>),
               StrVal(<<" ", "D", "a", "l", " ">>),
               StrVal(<<"0", "0", "7">>) }

FormRegions == { StrVal(<<>>), StrVal(<<" ", "G", "o", "a">>) }

FormIngredients == { StrVal(<<"s", "a", "l", "t">>),
                     StrVal(<<"r", "i", "c", "e", ",", " ", "d", "a", "l", ".">>) }

FormInstructions ==
  { StrVal(<<"b", "o", "i", "l", " ", "i", "t", " ", "f", "o", "r", " ",
             "2", "0", " ", "m", "i", "n", "s", ".">>) }

Forms ==
  [name : FormNames, language : {Telugu}, region : FormRegions,
   ingredients : FormIngredients, instructions : FormInstructions,
   prep_time : {20}, cook_time : {40}, servings : {4}, difficulty : {Easy}]

PhotoJpg == <<"p", "h", "o", "t", "o", ".", "j", "p", "g">>

FormImages == {None, [name |-> PhotoJpg, bytes |-> "img0"]}

(***************************************************************************)
(* initialize_hf_api under st.cache_resource, and upload_to_huggingface    *)
(***************************************************************************)
\* what login(token=token) does: it returns, or raises with this text
LoginErrors == {"Invalid user token", "Connection error"}
LoginOutcomes == {"ok"} \cup LoginErrors

\* the function body: (HfApi(), True) or (None, str(e))
LoginResult(outcome) ==
  IF outcome = "ok" THEN [api |-> "HfApi", login_result |-> "True"]
  ELSE [api |-> "None", login_result |-> outcome]

Remember(cache, token, result) ==
  [t \in DOMAIN cache \cup {token} |-> IF t = token THEN result ELSE cache[t]]

\* a plausible slip: only a successful login is kept in the cache
InitializeHfApi_ForgetFailure(cache, token, outcome) ==
  IF token \in DOMAIN cache
  THEN [result |-> cache[token], cache |-> cache, logins |-> 0]
  ELSE [result |-> LoginResult(outcome),
        cache |-> IF outcome = "ok"
                  THEN Remember(cache, token, LoginResult(outcome)) ELSE cache,
        logins |-> 1]

\* the cached call: the stored return value for a token seen before, else
\* the body, whose return value (a failure too) is stored; logins counts
\* the login() calls made
InitializeHfApi(cache, token, outcome) ==
  IF token \in DOMAIN cache
  THEN [result |-> cache[token], cache |-> cache, logins |-> 0]
  ELSE [result |-> LoginResult(outcome),
        cache |-> Remember(cache, token, LoginResult(outcome)),
        logins |-> 1]

DataPathInRepo == <<"r", "e", "c", "i", "p", "e", "s", ".", "c", "s", "v">>
ImagesPrefix == <<"i", "m", "a", "g", "e", "s", "/">>

DatasetCall == [path_or_fileobj |-> "recipes.csv", path_in_repo |-> DataPathInRepo]

ImageCall(fname) ==
  [path_or_fileobj |-> <<"recipe_images/">> \o fname,
   path_in_repo |-> ImagesPrefix \o fname]

\* Path(IMAGES_DIR).glob("*") lists the directory in some order
Listings(dir) ==
  {o \in [1..Cardinality(DOMAIN dir) -> DOMAIN dir] :
     \A i, j \in DOMAIN o : i # j => o[i] # o[j]}

\* a plausible slip: the images sent whatever include_images says
Transmissions_IgnoreFlag(include_images, listing) ==
  <<DatasetCall>> \o [i \in 1..Len(listing) |-> ImageCall(listing[i])]

\* the upload_file calls of the try block, in order; the image directory
\* exists since the module creates it on start
Transmissions(include_images, listing) ==
  <<DatasetCall>> \o
    (IF include_images
     THEN [i \in 1..Len(listing) |-> ImageCall(listing[i])]
     ELSE <<>>)

\* a plausible slip: a failing upload_file is skipped and the loop goes on
RunTransmissions_ContinueAfterError(plan, fail_at, error) ==
  IF fail_at \in 1..Len(plan)
  THEN [calls |-> plan, raised |-> TRUE, error |-> error]
  ELSE [calls |-> plan, raised |-> FALSE, error |-> ""]

\* the try block run against a host that fails the call number fail_at
\* (0: none): the calls made, and the exception caught if any
RunTransmissions(plan, fail_at, error) ==
  IF fail_at \in 1..Len(plan)
  THEN [calls |-> SubSeq(plan, 1, fail_at), raised |-> TRUE, error |-> error]
  ELSE [calls |-> plan, raised |-> FALSE, error |-> ""]

\* a plausible slip: the login result is not looked at
LoginFailed_Never(result) == FALSE

\* `if not api:`
LoginFailed(result) == result.api = "None"

NoDataMessage == <<"No local dataset found.">>
LoginFailedMessage(login_result) == <<"Login failed: ", login_result>>
UploadFailedMessage(error) == <<"Upload failed: ", error>>
UploadedMessage(repo_id) ==
  <<"Dataset uploaded successfully to: https://huggingface.co/datasets/", repo_id>>

\* upload_to_huggingface against the environment env (what login does, the
\* directory listing, which upload_file call fails and with what text):
\* the returned pair, the upload_file calls made, and the client cache
UploadToHuggingface(file, dir, cache, repo_id, token, include_images, env) ==
  IF ~file.exists
  THEN [success |-> FALSE, message |-> NoDataMessage, calls |-> <<>>,
        cache |-> cache, logins |-> 0]
  ELSE LET init == InitializeHfApi(cache, token, env.login)
       IN IF LoginFailed(init.result)
          THEN [success |-> FALSE,
                message |-> LoginFailedMessage(init.result.login_result),
                calls |-> <<>>, cache |-> init.cache, logins |-> init.logins]
          ELSE LET run == RunTransmissions(
                            Transmissions(include_images, env.listing),
                            env.fail_at, env.error)
               IN [success |-> ~run.raised,
                   message |-> IF run.raised THEN UploadFailedMessage(run.error)
                               ELSE UploadedMessage(repo_id),
                   calls |-> run.calls, cache |-> init.cache,
                   logins |-> init.logins]

TransmissionErrors == {"500 Server Error"}

\* What the calls an upload reaches can meet: login() is called only with
\* the file present and for a token the client cache does not hold, and
\* upload_file once per planned transmission (fail_at 0: none fails).
LoginOutcomesFor(token) ==
  IF token \in DOMAIN apiCache THEN {"ok"} ELSE LoginOutcomes

Environments(token, include_images) ==
  [login : IF dataFile.exists THEN LoginOutcomesFor(token) ELSE {"ok"},
   listing : Listings(imagesDir),
   fail_at : 0..(IF include_images THEN 1 + Cardinality(DOMAIN imagesDir) ELSE 1),
   error : TransmissionErrors]

RepoIds == {"user/indic-recipes"}

CountLogins(token, n) == [loginCalls EXCEPT ![token] = @ + n]

\* a call of upload_to_huggingface(repo_id, token, include_images)
Upload(repo_id, token, include_images, env) ==
  LET r == UploadToHuggingface(dataFile, imagesDir, apiCache, repo_id, token,
                               include_images, env)
  IN /\ apiCache' = r.cache
     /\ loginCalls' = CountLogins(token, r.logins)
     /\ last' = [op |-> "upload", token |-> token, repo_id |-> repo_id,
                 include_images |-> include_images, env |-> env,
                 success |-> r.success, message |-> r.message,
                 calls |-> r.calls, logins |-> r.logins]
     /\ UNCHANGED <<dataFile, imagesDir, loadCache, appended, now, args, stored>>

\* the sidebar's `if hf_token_input:` block, run by every script run
SidebarCheck(token, outcome) ==
  LET init == InitializeHfApi(apiCache, token, outcome)
  IN /\ apiCache' = init.cache
     /\ loginCalls' = CountLogins(token, init.logins)
     /\ last' = [op |-> "sidebar", token |-> token,
                 message |-> IF init.result.api = "HfApi"
                             THEN [kind |-> "success",
                                   text |-> <<"HF Login successful!">>]
                             ELSE [kind |-> "error",
                                   text |-> LoginFailedMessage(init.result.login_result)],
                 logins |-> init.logins]
     /\ UNCHANGED <<dataFile, imagesDir, loadCache, appended, now, args, stored>>

\* The script run of a click on "Upload to HF": the sidebar block, the
\* load of df_existing, then the button's guards and the upload.
UploadButton(hf_token_input, repo_id, include_images, env) ==
  LET init == IF hf_token_input # ""
              THEN InitializeHfApi(apiCache, hf_token_input, env.login)
              ELSE [cache |-> apiCache, logins |-> 0]
      df_existing == LoadExistingData(loadCache, dataFile)
      guard == IF hf_token_input = "" THEN "Please enter your HF token first"
               ELSE IF repo_id = "" THEN "Please enter a repository ID"
               ELSE IF df_existing = EmptyDataFrame THEN "No recipes to upload"
               ELSE ""
      r == UploadToHuggingface(dataFile, imagesDir, init.cache, repo_id,
                               hf_token_input, include_images, env)
  IN /\ loadCache' = CacheAfterLoad(loadCache, dataFile)
     /\ IF guard # ""
        THEN /\ apiCache' = init.cache
             /\ loginCalls' = IF hf_token_input # ""
                              THEN CountLogins(hf_token_input, init.logins)
                              ELSE loginCalls
             /\ last' = [op |-> "upload_button", token |-> hf_token_input,
                         called |-> FALSE, success |-> FALSE,
                         message |-> <<guard>>, calls |-> <<>>]
        ELSE /\ apiCache' = r.cache
             /\ loginCalls' = CountLogins(hf_token_input, init.logins + r.logins)
             /\ last' = [op |-> "upload_button", token |-> hf_token_input,
                         called |-> TRUE, success |-> r.success,
                         message |-> r.message, calls |-> r.calls]
     /\ UNCHANGED <<dataFile, imagesDir, appended, now, args, stored>>

(***************************************************************************)
(* Specifications                                                          *)
(***************************************************************************)
\* The recipe repository: loads and form submissions.
Next ==
  \/ Load
  \/ \E f \in Forms, image_file \in FormImages :
       \E fs \in FsOutcomes(f, image_file) : Submit(f, image_file, fs)

Spec == Init /\ [][Next]_vars

\* The uploader, over the local store a few submissions build.
UploadForms ==
  [name : {StrVal(<<"D", "a", "l">>)}, language : {Hindi},
   region : {StrVal(<<"G", "o", "a">>)},
   ingredients : {StrVal(<<"r", "i", "c", "e", ",", " ", "d", "a", "l", ".">>)},
   instructions : FormInstructions,
   prep_time : {20}, cook_time : {40}, servings : {4}, difficulty : {Easy}]

UploadImages == {None, [name |-> PhotoJpg, bytes |-> "img0"],
                 [name |-> PhotoJpg, bytes |-> "img27560"]}

\* the button is clicked with "Include images" at its default, checked
ButtonEnvironments(token) ==
  [login : LoginOutcomesFor(token), listing : Listings(imagesDir),
   fail_at : {0, 1}, error : TransmissionErrors]

NextUpload ==
  \/ Load
  \/ \E f \in UploadForms, image_file \in UploadImages : Submit(f, image_file, "ok")
  \/ \E repo_id \in RepoIds, token \in Tokens, include_images \in BOOLEAN :
       \E env \in Environments(token, include_images) :
         Upload(repo_id, token, include_images, env)
  \/ \E token \in Tokens : \E outcome \in LoginOutcomesFor(token) :
       SidebarCheck(token, outcome)
  \/ \E hf_token_input \in Tokens \cup {""}, repo_id \in RepoIds \cup {""} :
       \E env \in ButtonEnvironments(hf_token_input) :
         UploadButton(hf_token_input, repo_id, TRUE, env)

SpecUpload == Init /\ [][NextUpload]_vars

\* The validator applied to inputs around each threshold.
PaddedBodies(n) ==
  {Rep("a", k) : k \in {0, n - 1, n}}
    \cup {[i \in 1..n |-> IF i = 2 THEN " " ELSE "a"]}

ValidateInputs(n) ==
  {None} \cup
  {StrVal(Rep(" ", l) \o b \o Rep(" ", r)) :
     l \in 0..MaxPad, r \in 0..MaxPad, b \in PaddedBodies(n)}

InitValidate ==
  /\ dataFile = NoFile
  /\ imagesDir = <<>>
  /\ loadCache = NoCache
  /\ apiCache = <<>>
  /\ loginCalls = [t \in Tokens |-> 0]
  /\ appended = <<>>
  /\ now = 0
  /\ last = [op |-> "start"]
  /\ args \in [name : ValidateInputs(MinNameLen),
               ingredients : ValidateInputs(MinIngredientsLen),
               instructions : ValidateInputs(MinInstructionsLen)]
  /\ stored = <<>>

\* a call of validate_recipe_data on the inputs
Validate ==
  /\ last' = [op |-> "validate",
              errors |-> ValidateRecipeData(args.name, args.ingredients,
                                            args.instructions)]
  /\ UNCHANGED <<dataFile, imagesDir, loadCache, apiCache, loginCalls,
                 appended, now, args, stored>>

NextValidate == Validate

SpecValidate == InitValidate /\ [][NextValidate]_vars

\* The image store called on its own.
PhotoPng == <<"p", "h", "o", "t", "o", ".", "p", "n", "g">>

StoreImages == {None} \cup [name : {PhotoJpg, PhotoPng}, bytes : ImageBytes]

StoreNames == { <<"D", "a", "l">>,
                <<"D", "a", "l", "!">>,
                <<"D", "a", "l", " ", "F", "r", "y">>,
                <<"D", "a", "l", "_", "F", "r", "y">> }

\* a call of save_image(image_file, recipe_name)
StoreImage(image_file, recipe_name) ==
  LET img == SaveImage(imagesDir, image_file, recipe_name)
  IN /\ Len(stored) < MaxStores
     /\ imagesDir' = img.dir
     /\ stored' = Append(stored, [image_file |-> image_file,
                                  recipe_name |-> recipe_name,
                                  filename |-> img.filename])
     /\ last' = [op |-> "store", filename |-> img.filename]
     /\ UNCHANGED <<dataFile, loadCache, apiCache, loginCalls, appended, now,
                    args>>

NextImage ==
  \E image_file \in StoreImages, recipe_name \in StoreNames :
    StoreImage(image_file, recipe_name)

SpecImage == Init /\ [][NextImage]_vars

(***************************************************************************)
(* Properties                                                              *)
(***************************************************************************)
Range(s) == {s[i] : i \in DOMAIN s}

\* the columns whose values the CSV file returns as they were written
\* (name, region and image_filename are the subject of C8)
KeptColumns == Columns \ {"name", "region", "image_filename"}

SameRecords(df, log) ==
  /\ Len(df) = Len(log)
  /\ \A i \in 1..Len(df) : \A c \in KeptColumns : df[i][c] = log[i][c]

PassedValidator(r) ==
  /\ Len(r.name.s) >= MinNameLen
  /\ Len(r.ingredients.s) >= MinIngredientsLen
  /\ Len(r.instructions.s) >= MinInstructionsLen

\* C2: a submit whose validation result is non-empty persists nothing (the
\* file, the image directory and the load cache stay as they were); a row
\* is added to the file only by a submit whose validation result is empty,
\* and every record appended satisfies the validator's rules.
C2_OnlyValidatedRecordsPersist ==
  /\ [](/\ Len(dataFile.rows) = Len(appended)
        /\ \A i \in 1..Len(appended) : PassedValidator(appended[i]))
  /\ [][/\ (last'.op = "submit" /\ last'.errors # <<>>)
              => UNCHANGED <<dataFile, imagesDir, loadCache>>
        /\ dataFile' # dataFile
              => /\ last'.op = "submit"
                 /\ last'.errors = <<>>
                 /\ Len(dataFile'.rows) = Len(dataFile.rows) + 1]_vars

C2_Witness ==
  /\ last.op = "submit"
  /\ Len(last.errors) = 2
  /\ last.had_image
  /\ dataFile.exists
  /\ loadCache.hit

TrimmedLen(v) == IF v = None THEN 0 ELSE Len(Strip(v.s))

Violated(a) ==
  {m \in {NameError, IngredientsError, InstructionsError} :
     \/ m = NameError /\ TrimmedLen(a.name) < 3
     \/ m = IngredientsError /\ TrimmedLen(a.ingredients) < 10
     \/ m = InstructionsError /\ TrimmedLen(a.instructions) < 20}

\* C3: validate reports a rule iff the field's trimmed length (0 for an
\* empty or absent value) is below 3, 10 or 20; the rules are independent,
\* so there are as many messages as violated rules, and none exactly when
\* no rule is violated.
C3_ValidateRules ==
  last.op = "validate" =>
    /\ Range(last.errors) = Violated(args)
    /\ Len(last.errors) = Cardinality(Violated(args))
    /\ last.errors = <<>> <=> Violated(args) = {}

C3_Witness ==
  /\ last.op = "validate"
  /\ Len(last.errors) = 3
  /\ args.name # None /\ Len(args.name.s) >= 3
  /\ args.ingredients = None

\* C4: an upload that finds no backing file fails with the no-data message,
\* calls neither login nor upload_file and leaves the client cache alone;
\* an upload whose credential is rejected fails with the login error and
\* calls no upload_file.
C4_NoTransmissionWithoutPreconditions ==
  /\ [](last.op = "upload" =>
         /\ ~dataFile.exists =>
              /\ ~last.success
              /\ last.message = NoDataMessage
              /\ last.calls = <<>>
              /\ last.logins = 0
         /\ (dataFile.exists /\ apiCache[last.token].api = "None") =>
              /\ ~last.success
              /\ last.message = LoginFailedMessage(apiCache[last.token].login_result)
              /\ last.calls = <<>>)
  /\ [][(last'.op = "upload" /\ ~dataFile.exists)
          => UNCHANGED <<apiCache, loginCalls>>]_vars

C4_Witness ==
  /\ last.op = "upload"
  /\ dataFile.exists
  /\ apiCache[last.token].api = "None"
  /\ last.include_images
  /\ Cardinality(DOMAIN imagesDir) = 2

PathsInRepo(calls) == {calls[i].path_in_repo : i \in 1..Len(calls)}

\* C5: with the file present, the credential accepted and no upload_file
\* failing, the upload succeeds; without include_images it sends the
\* dataset alone to recipes.csv; with it and N files in the image
\* directory it sends 1+N files, the dataset first and then every image
\* once to images/<filename>.
C5_TransmitsDatasetThenImages ==
  last.op = "upload" /\ dataFile.exists /\ apiCache[last.token].api = "HfApi"
    /\ last.env.fail_at = 0 =>
      /\ last.success
      /\ last.message = UploadedMessage(last.repo_id)
      /\ last.calls[1] = DatasetCall
      /\ last.calls[1].path_in_repo = DataPathInRepo
      /\ ~last.include_images => Len(last.calls) = 1
      /\ last.include_images =>
           /\ Len(last.calls) = 1 + Cardinality(DOMAIN imagesDir)
           /\ PathsInRepo(Tail(last.calls)) =
                {ImagesPrefix \o f : f \in DOMAIN imagesDir}

C5_Witness ==
  /\ last.op = "upload"
  /\ last.success
  /\ last.include_images
  /\ Len(last.calls) = 3

\* C6: an upload stops at the first upload_file that fails: no call follows
\* the failing one, the result is a failure carrying the error text, and
\* an upload succeeds only if none of its calls failed; an upload changes
\* neither the backing file, the image directory nor the load cache.
C6_FailsOnFirstTransmissionError ==
  /\ [](last.op = "upload" /\ last.calls # <<>> =>
         /\ last.env.fail_at \in 1..Len(Transmissions(last.include_images,
                                                       last.env.listing))
              => /\ Len(last.calls) = last.env.fail_at
                 /\ ~last.success
                 /\ last.message = UploadFailedMessage(last.env.error)
         /\ last.success => last.env.fail_at \notin 1..Len(last.calls))
  /\ [][last'.op = "upload" => UNCHANGED <<dataFile, imagesDir, loadCache>>]_vars

C6_Witness ==
  /\ last.op = "upload"
  /\ last.include_images
  /\ Cardinality(DOMAIN imagesDir) = 2
  /\ last.env.fail_at = 2
  /\ Len(last.calls) = 2
  /\ ~last.success

StorageFailed == last.op = "submit" /\ last.errors = <<>> /\ ~last.saved

\* C7: a storage failure during a submit is caught by the handler and
\* reported as an error message; no exception leaves the handler.
C7_StorageFailureReported ==
  StorageFailed =>
    /\ ~last.raised
    /\ \E i \in 1..Len(last.messages) : last.messages[i].kind = "error"

\* C8: after a record is appended, the last row load returns equals the
\* record field by field, its total being prep + cook.
C8_RoundTrip ==
  last.op = "submit" /\ last.saved =>
    /\ last.loaded[Len(last.loaded)] = last.record
    /\ last.record.total_time_minutes.n =
         last.record.prep_time_minutes.n + last.record.cook_time_minutes.n

\* C9: two store calls with the same bytes, recipe name and extension give
\* the same filename and leave one file; two calls that differ in bytes or
\* in recipe name give different filenames.
C9_NamingDistinguishes ==
  \A i, j \in 1..Len(stored) :
    (i < j /\ stored[i].image_file # None /\ stored[j].image_file # None) =>
      LET a == stored[i]
          b == stored[j]
      IN /\ (/\ a.image_file.bytes = b.image_file.bytes
             /\ a.recipe_name = b.recipe_name
             /\ Extension(a.image_file.name) = Extension(b.image_file.name))
              => /\ a.filename = b.filename
                 /\ Len(stored) = 2 => Cardinality(DOMAIN imagesDir) = 1
         /\ (\/ a.image_file.bytes # b.image_file.bytes
             \/ a.recipe_name # b.recipe_name)
              => a.filename # b.filename

\* C10 as stated: once a credential's failure is cached, every upload with
\* it returns that login failure.
C10_AlwaysSameLoginFailure ==
  (/\ last.op = "upload"
   /\ last.token \in DOMAIN apiCache
   /\ apiCache[last.token].api = "None")
    => /\ last.message = LoginFailedMessage(apiCache[last.token].login_result)
       /\ last.calls = <<>>

\* C10: login is called at most once per credential: the client cache
\* keeps the first outcome, a failure included, and never changes it; an
\* upload with a credential whose failure is cached calls no upload_file
\* and returns that login failure when the backing file exists, the
\* no-data failure when it does not.
C10_AuthOncePerCredential ==
  /\ [](/\ \A t \in Tokens : /\ loginCalls[t] <= 1
                             /\ t \in DOMAIN apiCache <=> loginCalls[t] = 1
        /\ (/\ last.op = "upload"
            /\ last.token \in DOMAIN apiCache
            /\ apiCache[last.token].api = "None")
             => /\ ~last.success
                /\ last.calls = <<>>
                /\ last.message =
                     IF dataFile.exists
                     THEN LoginFailedMessage(apiCache[last.token].login_result)
                     ELSE NoDataMessage)
  /\ [][\A t \in DOMAIN apiCache :
          t \in DOMAIN apiCache' /\ apiCache'[t] = apiCache[t]]_vars

C10_Witness ==
  /\ last.op = "upload"
  /\ dataFile.exists
  /\ last.logins = 0
  /\ loginCalls[last.token] = 1
  /\ apiCache[last.token].api = "None"
  /\ last.message = LoginFailedMessage("Connection error")

====
